---- MODULE Spec2Model ----
(***************************************************************************)
(* Model of the wishlist extraction pipeline of books-app:                 *)
(*   - parseBooks          (lib/bookService, the cheerio page parser)      *)
(*   - fetchFavoriteBooks  (lib/bookService, the sequential page loop)     *)
(*   - GET                 (app/api/books/route, the HTTP handler)         *)
(*                                                                         *)
(* JavaScript strings are sequences of one-character strings, so that      *)
(* split, trim, startsWith, includes and template literals are computed    *)
(* character by character.  A value that may be `undefined` is a sequence  *)
(* of length at most one: <<>> is undefined, <<s>> is the string s.        *)
(***************************************************************************)
EXTENDS Integers, Sequences, FiniteSets, TLC

----------------------------------------------------------------------------
(* JavaScript values                                                       *)

Undefined == <<>>

EmptyStr == <<>>

Str(s) == <<s>>

\* JS truthiness of a string-or-undefined: undefined and '' are falsy.
Truthy(v) == v # Undefined /\ v[1] # EmptyStr

\* a || b
JsOr(a, b) == IF Truthy(a) THEN a ELSE b

RECURSIVE TrimLeft(_)
TrimLeft(s) ==
  IF s # EmptyStr /\ Head(s) = " " THEN TrimLeft(Tail(s)) ELSE s

RECURSIVE TrimRight(_)
TrimRight(s) ==
  IF s # EmptyStr /\ s[Len(s)] = " "
  THEN TrimRight(SubSeq(s, 1, Len(s) - 1))
  ELSE s

\* String.prototype.trim
Trim(s) == TrimRight(TrimLeft(s))

\* String.prototype.startsWith
StartsWith(s, prefix) ==
  Len(s) >= Len(prefix) /\ SubSeq(s, 1, Len(prefix)) = prefix

\* substring containment, as in the attribute selector [href*="..."]
Contains(s, sub) ==
  \E i \in 1..(Len(s) - Len(sub) + 1) : SubSeq(s, i, i + Len(sub) - 1) = sub

\* String.prototype.split('/'): the segments between slashes, empty ones kept
RECURSIVE SplitFrom(_, _, _)
SplitFrom(s, cur, acc) ==
  IF s = EmptyStr THEN Append(acc, cur)
  ELSE IF Head(s) = "/" THEN SplitFrom(Tail(s), EmptyStr, Append(acc, cur))
  ELSE SplitFrom(Tail(s), Append(cur, Head(s)), acc)

SplitSlash(s) == SplitFrom(s, EmptyStr, <<>>)

NonEmptySegment(seg) == seg # EmptyStr

\* url.split('/').filter(Boolean).pop() : undefined when nothing is left
LastSegment(url) ==
  LET segs == SelectSeq(SplitSlash(url), NonEmptySegment)
  IN  IF segs = <<>> THEN Undefined ELSE Str(segs[Len(segs)])

DigitChars == <<"0", "1", "2", "3", "4", "5", "6", "7", "8", "9">>

\* the decimal rendering of a non-negative integer inside a template literal
RECURSIVE NumToStr(_)
NumToStr(n) ==
  IF n < 10 THEN <<DigitChars[n + 1]>>
  ELSE NumToStr(n \div 10) \o <<DigitChars[(n % 10) + 1]>>

----------------------------------------------------------------------------
(* Constants of lib/bookService                                            *)

MNOGOKNIG_BASE_URL ==
  <<"h","t","t","p","s",":","/","/","m","n","o","g","o","k","n","i","g",".","c","o","m">>

WISHLIST_PAGES == <<1, 2, 3>>

ProductMarker == <<"/","p","r","o","d","u","c","t","s","/">>

HttpPrefix == <<"h","t","t","p">>

NoUrlSlug == <<"n","o","u","r","l">>

UnknownAuthor == <<"U","n","k","n","o","w","n"," ","A","u","t","h","o","r">>

----------------------------------------------------------------------------
(* The page parser: parseBooks(html, page)                                 *)
(*                                                                         *)
(* A page is the sequence of its top-level nodes in document order.  A     *)
(* node records what the parser's selectors can see of it:                 *)
(*   card     TRUE iff it matches .w-full.max-w-sm.flex.flex-col...        *)
(*   anchors  its <a> descendants in document order, each with its href    *)
(*            and title attributes (Undefined when the attribute is absent)*)
(*   span     raw text of the first span.text-base.font-normal             *)
(*   img      the first <img>, with its alt, src and data-src attributes   *)
(*   author1  raw text of the first .truncate.text-gray-500                *)
(*   author2  raw text of the first .text-gray-500.text-sm.font-light      *)
(*   price    raw text of the first .font-bold.text-gray-900               *)
(*   green    raw text of the first .text-green-600, .text-green-500       *)
(*   red      raw text of the first .text-red-600, .text-red-500           *)
(* A selection that matches nothing is <<>>, a match is <<value>>.         *)

IsCard(node) == node.card

\* $el.find('a[href*="/products/"]').first()
FirstProductLink(el) ==
  LET hits == {i \in 1..Len(el.anchors) :
                 /\ el.anchors[i].href # Undefined
                 /\ Contains(el.anchors[i].href[1], ProductMarker)}
  IN  IF hits = {} THEN <<>>
      ELSE <<el.anchors[CHOOSE i \in hits : \A j \in hits : i <= j]>>

\* $el.find('a[title]') : attr() reads the first matched element
FirstTitledAnchor(el) ==
  LET hits == {i \in 1..Len(el.anchors) : el.anchors[i].title # Undefined}
  IN  IF hits = {} THEN <<>>
      ELSE <<el.anchors[CHOOSE i \in hits : \A j \in hits : i <= j]>>

\* selection.first().text().trim() : '' for an empty selection
TextTrim(sel) == Str(IF sel = <<>> THEN EmptyStr ELSE Trim(sel[1]))

\* const url = linkEl.attr('href') || ''
BookUrl(el) ==
  LET linkEl == FirstProductLink(el)
  IN  JsOr(IF linkEl = <<>> THEN Undefined ELSE linkEl[1].href, Str(EmptyStr))

\* const urlSlug = url ? url.split('/').filter(Boolean).pop() || '' : ''
UrlSlug(url) ==
  IF Truthy(url) THEN JsOr(LastSegment(url[1]), Str(EmptyStr)) ELSE Str(EmptyStr)

\* the id without the page part: a parser that forgot the page prefix
BookIdNoPage(page, index, urlSlug) ==
  <<"i">> \o NumToStr(index) \o <<"-">> \o JsOr(urlSlug, Str(NoUrlSlug))[1]

\* const id = `p${page}-i${index}-${urlSlug || 'nourl'}`
BookId(page, index, urlSlug) ==
  <<"p">> \o NumToStr(page) \o <<"-", "i">> \o NumToStr(index) \o <<"-">>
    \o JsOr(urlSlug, Str(NoUrlSlug))[1]

\* linkEl.attr('title') || $el.find('a[title]').attr('title')
\*   || span text || first img alt || ''
BookTitle(el) ==
  LET linkEl   == FirstProductLink(el)
      titled   == FirstTitledAnchor(el)
      linkT    == IF linkEl = <<>> THEN Undefined ELSE linkEl[1].title
      anyT     == IF titled = <<>> THEN Undefined ELSE titled[1].title
      imgAlt   == IF el.img = <<>> THEN Undefined ELSE el.img[1].alt
  IN  JsOr(JsOr(JsOr(JsOr(linkT, anyT), TextTrim(el.span)), imgAlt), Str(EmptyStr))

\* author text, first signature then second
BookAuthor(el) == JsOr(TextTrim(el.author1), TextTrim(el.author2))

\* let coverImage = src || data-src; prefix the base origin unless it
\* starts with 'http'
BookCover(el) ==
  LET src     == IF el.img = <<>> THEN Undefined ELSE el.img[1].src
      dataSrc == IF el.img = <<>> THEN Undefined ELSE el.img[1].dataSrc
      raw     == JsOr(src, dataSrc)
  IN  IF Truthy(raw) /\ ~StartsWith(raw[1], HttpPrefix)
      THEN Str(MNOGOKNIG_BASE_URL \o raw[1])
      ELSE raw

BookPrice(el) == TextTrim(el.price)

BookAvailability(el) ==
  JsOr(JsOr(TextTrim(el.green), TextTrim(el.red)), Str(EmptyStr))

\* the object literal pushed for one container
BookOf(el, page, index) ==
  LET url == BookUrl(el)
  IN  [ id           |-> BookId(page, index, UrlSlug(url)),
        title        |-> BookTitle(el)[1],
        author       |-> JsOr(BookAuthor(el), Str(UnknownAuthor))[1],
        coverImage   |-> BookCover(el),
        price        |-> BookPrice(el),
        availability |-> BookAvailability(el),
        url          |-> JsOr(url, Undefined) ]

\* a parser that numbers a container by the records pushed so far
EachIndexByPushed(pos, pushed) == pushed

\* the index elements.each passes for the container at 1-based position
\* pos of the matched set (pushed = books.length at that moment)
EachIndex(pos, pushed) == pos - 1

RECURSIVE EachFrom(_, _, _, _)
EachFrom(elements, page, pos, books) ==
  IF pos > Len(elements) THEN books
  ELSE LET el == elements[pos]
           b  == BookOf(el, page, EachIndex(pos, Len(books)))
       IN  EachFrom(elements, page, pos + 1,
                    IF Truthy(BookTitle(el)) THEN Append(books, b) ELSE books)

parseBooks(html, page) == EachFrom(SelectSeq(html, IsCard), page, 1, <<>>)

----------------------------------------------------------------------------
(* Bounds and the inputs drawn within them                                 *)

\* longest page (in nodes) handed to the parser on its own
MaxCards == 3

\* longest page (in nodes) a wishlist response carries during a run
MaxPageCards == 2

\* largest in-page index at which an id is computed on its own
MaxIndex == 11

BoundedSeq(S, n) == UNION {[1..k -> S] : k \in 0..n}

Node(card, anchors, span, img, author1, author2, price, green, red) ==
  [ card |-> card, anchors |-> anchors, span |-> span, img |-> img,
    author1 |-> author1, author2 |-> author2, price |-> price,
    green |-> green, red |-> red ]

Anchor(href, title) == [href |-> href, title |-> title]

Img(alt, src, dataSrc) == [alt |-> alt, src |-> src, dataSrc |-> dataSrc]

\* "/products/b1"
HrefB1 == ProductMarker \o <<"b", "1">>

\* "/products/1-i2/" : a slug made of digits and the id's separators
HrefDash == ProductMarker \o <<"1", "-", "i", "2", "/">>

\* "/products/nourl" : a slug equal to the placeholder
HrefNoUrl == ProductMarker \o NoUrlSlug

\* "/ab" : not a product link
HrefOther == <<"/", "a", "b">>

AnchorChoices ==
  { <<>>,
    <<Anchor(Str(HrefB1), Str(<<"A">>))>>,
    <<Anchor(Str(HrefB1), Undefined)>>,
    <<Anchor(Str(HrefOther), Str(<<"B">>)), Anchor(Str(HrefDash), Str(EmptyStr))>>,
    <<Anchor(Str(ProductMarker), Undefined)>>,
    <<Anchor(Undefined, Str(<<"B">>)), Anchor(Str(HrefNoUrl), Undefined)>> }

TextChoices == { <<>>, Str(<<" ">>), Str(<<" ", "T", " ">>) }

ImgChoices ==
  { <<>>,
    <<Img(Str(<<"C">>), Str(<<"/", "i">>), Undefined)>>,
    <<Img(Undefined, Undefined, Str(<<"h","t","t","p",":","/","/","c">>))>>,
    <<Img(Str(EmptyStr), Str(EmptyStr), Str(EmptyStr))>>,
    <<Img(Undefined, Str(<<"h","t","t","p",".","j">>), Undefined)>>,
    <<Img(Undefined, Str(<<"d","a","t","a",":","x">>), Str(<<"/", "i">>))>> }

LabelChoices == { <<>>, Str(<<"L">>) }

\* every combination of the choices above, as one card
CardProduct ==
  { Node(TRUE, a, s, i, a1, a2, p, g, r) :
      a \in AnchorChoices, s \in TextChoices, i \in ImgChoices,
      a1 \in LabelChoices, a2 \in {<<>>, Str(<<"M">>)}, p \in TextChoices,
      g \in LabelChoices, r \in {<<>>, Str(<<"R">>)} }

\* a card with a titled product link (slug "1-i2") and nothing else
CardA ==
  Node(TRUE, <<Anchor(Str(HrefDash), Str(<<"A">>))>>, <<>>, <<>>, <<>>, <<>>,
       <<>>, <<>>, <<>>)

\* a card without any link, titled by its label
CardNoUrl ==
  Node(TRUE, <<>>, Str(<<" ", "T", " ">>), <<>>, Str(<<"L">>), <<>>,
       Str(<<" ", "9", " ">>), <<>>, Str(<<"R">>))

\* a decorative card: a product link but no title from any strategy
CardNoTitle ==
  Node(TRUE, <<Anchor(Str(HrefB1), Undefined)>>, Str(<<" ">>), <<>>, <<>>,
       <<>>, Str(<<"9">>), <<>>, <<>>)

\* a fully populated card whose slug is "1-i2"
CardFull ==
  Node(TRUE,
       <<Anchor(Str(HrefOther), Str(<<"B">>)), Anchor(Str(HrefDash), Str(EmptyStr))>>,
       Str(<<"T">>), <<Img(Str(<<"C">>), Str(<<"/", "i">>), Undefined)>>,
       <<>>, Str(<<"M">>), Str(<<"9">>), Str(<<"L">>), Str(<<"R">>))

\* a top-level node that is not a card
NonCard ==
  Node(FALSE, <<Anchor(Str(HrefB1), Str(<<"A">>))>>, <<>>, <<>>, <<>>, <<>>,
       <<>>, <<>>, <<>>)

\* a titled card whose first product link is href
CardWithHref(href) ==
  Node(TRUE, <<Anchor(Str(href), Str(<<"A">>))>>, <<>>, <<>>, <<>>, <<>>,
       <<>>, <<>>, <<>>)

\* product links whose last segment looks like a piece of an id
IdHrefs ==
  { HrefB1, HrefDash, HrefNoUrl, ProductMarker,
    ProductMarker \o <<"0">>,
    ProductMarker \o <<"0", "-", "0">>,
    ProductMarker \o <<"-", "i", "1", "-">>,
    ProductMarker \o <<"x", "/", "p", "1", "-", "i", "1">> }

\* cards whose ids are compared: one per link above, and one without link
IdCards == {CardWithHref(h) : h \in IdHrefs} \cup {CardNoUrl}

SampleNodes == {CardA, CardNoUrl, CardNoTitle, CardFull, NonCard}

\* pages handed to the parser on its own
ParserPages ==
  BoundedSeq(SampleNodes, MaxCards) \cup { <<c>> : c \in CardProduct }

RunNodes == {CardA, CardNoTitle}

\* bodies a wishlist response may carry during a run
Markups == BoundedSeq(RunNodes, MaxPageCards)

----------------------------------------------------------------------------
(* State                                                                   *)

VARIABLES
  env,       \* process.env.MNOGOKNIG_SESSION_COOKIE: Undefined or a string
  pc,        \* where the GET request is: "idle", "fetch" (awaiting fetch()),
             \* "text" (awaiting response.text()), "import" (awaiting
             \* import('fs')), "returned" / "raised" (fetchFavoriteBooks
             \* settled), "responded"
  idx,       \* 1-based position in WISHLIST_PAGES of the current iteration
  allBooks,  \* the accumulator of fetchFavoriteBooks
  inflight,  \* pages whose fetch() has been issued and has not settled
  fetched,   \* pages whose fetch() has been issued, in order of issue
  outcome,   \* per page, how its iteration ended ("pending" until then)
  markup,    \* per page, the body response.text() resolved with, if any
  result,    \* the value fetchFavoriteBooks resolved with, if any
  response,  \* the response GET produced, if any
  pIn,       \* arguments of a stand-alone parseBooks call
  pOut,      \* its return value, once called
  idIn,      \* two containers, each with the page and index it is parsed at
  idOut,     \* the ids the parser gives them, once computed
  mounted,          \* Home: the mount effect has run
  loading,          \* Home: useState loading
  loadingProgress,  \* Home: useState loadingProgress
  error,            \* Home: useState error (Undefined is null)
  uiBooks,          \* Home: useState books
  hasFetched,       \* Home: useState hasFetched
  loads             \* Home: the calls of fetchBooks / forceRefresh so far, each
                    \* with its position ("fetch", "json", "finishing",
                    \* "done") and whether its progress interval is active

vars ==
  <<env, pc, idx, allBooks, inflight, fetched, outcome, markup, result,
    response, pIn, pOut, idIn, idOut,
    mounted, loading, loadingProgress, error, uiBooks, hasFetched, loads>>

pureVars == <<pIn, pOut, idIn, idOut>>

clientVars ==
  <<mounted, loading, loadingProgress, error, uiBooks, hasFetched, loads>>

runVars ==
  <<env, pc, idx, allBooks, inflight, fetched, outcome, markup, result, response>>

PageSet == {WISHLIST_PAGES[i] : i \in 1..Len(WISHLIST_PAGES)}

CookieChoices == {Undefined, Str(EmptyStr), Str(<<"s">>)}

RunIdle ==
  /\ pc = "idle"
  /\ idx = 0
  /\ allBooks = <<>>
  /\ inflight = {}
  /\ fetched = <<>>
  /\ outcome = [p \in PageSet |-> "pending"]
  /\ markup = [p \in PageSet |-> <<>>]
  /\ result = <<>>
  /\ response = <<>>

\* no stand-alone parseBooks call
ParserIdle ==
  /\ pIn = [html |-> <<>>, page |-> WISHLIST_PAGES[1]]
  /\ pOut = <<>>

\* no stand-alone id computation
IdIdle ==
  /\ idIn = <<>>
  /\ idOut = <<>>

\* Home before its mount effect: the useState initial values
ClientIdle ==
  /\ mounted = FALSE
  /\ loading = TRUE
  /\ loadingProgress = 0
  /\ error = Undefined
  /\ uiBooks = <<>>
  /\ hasFetched = FALSE
  /\ loads = <<>>

Init ==
  /\ env \in CookieChoices
  /\ RunIdle
  /\ ParserIdle
  /\ IdIdle
  /\ ClientIdle

----------------------------------------------------------------------------
(* fetchFavoriteBooks                                                      *)

\* a guard that only tests for an unset variable
HasCredentialIfSet(cookie) == cookie # Undefined

\* if (!sessionCookie) return []
HasCredential(cookie) == Truthy(cookie)

\* an empty page that does not end the loop
NeverStops(books) == FALSE

\* if (books.length === 0) break
StopsPagination(books) == Len(books) = 0

\* a transport failure that ends the loop
NotOkBreaks == "break"

\* if (!response.ok) { ...; continue; }
NotOkStep == "continue"

\* a catch block that lets a parser exception escape
PageCatchRethrowsParser(kind) == IF kind = "parsethrow" THEN "rethrow" ELSE "swallow"

\* a catch block that lets a failure to read the body escape
PageCatchRethrowsBody(kind) == IF kind = "bodyfail" THEN "rethrow" ELSE "swallow"

\* catch (error) { console.error(...) } : every exception ends the iteration
PageCatch(kind) == "swallow"

\* an accumulator that is overwritten by each page
AccumulateOverwrite(all, books) == books

\* allBooks.push(...books)
Accumulate(all, books) == all \o books

\* a loop that does not advance
NextPosStuck(i) == i

\* for (const page of WISHLIST_PAGES) : the position after position i
NextPos(i) == i + 1

CurPage == WISHLIST_PAGES[idx]

\* the iteration of the current page is over: start the next one (issuing
\* its fetch) or, past the last page, return the accumulator
Continue(books) ==
  /\ allBooks' = books
  /\ IF idx < Len(WISHLIST_PAGES)
     THEN /\ idx' = NextPos(idx)
          /\ pc' = "fetch"
          /\ inflight' = {WISHLIST_PAGES[NextPos(idx)]}
          /\ fetched' = Append(fetched, WISHLIST_PAGES[NextPos(idx)])
          /\ result' = result
     ELSE /\ pc' = "returned"
          /\ result' = <<books>>
          /\ inflight' = {}
          /\ UNCHANGED <<idx, fetched>>

\* break: leave the loop and return the accumulator
Break(books) ==
  /\ allBooks' = books
  /\ pc' = "returned"
  /\ result' = <<books>>
  /\ inflight' = {}
  /\ UNCHANGED <<idx, fetched>>

\* an exception leaves fetchFavoriteBooks: its promise rejects
Raise ==
  /\ pc' = "raised"
  /\ inflight' = {}
  /\ UNCHANGED <<idx, fetched, allBooks, result>>

\* an exception of the given kind is thrown inside the try block
Thrown(kind) ==
  /\ outcome' = [outcome EXCEPT ![CurPage] = kind]
  /\ IF PageCatch(kind) = "swallow" THEN Continue(allBooks) ELSE Raise

\* GET is invoked and calls fetchFavoriteBooks, which runs up to its first
\* await: the credential check and, with a credential, the first fetch
GETCall ==
  /\ pc = "idle"
  /\ IF ~HasCredential(env)
     THEN /\ pc' = "returned"
          /\ result' = << <<>> >>
          /\ UNCHANGED <<idx, allBooks, inflight, fetched>>
     ELSE /\ idx' = 1
          /\ pc' = "fetch"
          /\ inflight' = {WISHLIST_PAGES[1]}
          /\ fetched' = <<WISHLIST_PAGES[1]>>
          /\ UNCHANGED <<allBooks, result>>
  /\ UNCHANGED <<env, outcome, markup, response, pureVars, clientVars>>

\* the awaited fetch() settles: network fault, non-2xx response, or 2xx
FetchSettles ==
  /\ pc = "fetch"
  /\ \E r \in {"fault", "non2xx", "ok"} :
       CASE r = "fault"  -> Thrown("fault")
         [] r = "non2xx" ->
              /\ outcome' = [outcome EXCEPT ![CurPage] = "non2xx"]
              /\ IF NotOkStep = "continue" THEN Continue(allBooks) ELSE Break(allBooks)
         [] r = "ok"     ->
              /\ pc' = "text"
              /\ inflight' = {}
              /\ UNCHANGED <<idx, allBooks, fetched, result, outcome>>
  /\ UNCHANGED <<env, markup, response, pureVars, clientVars>>

\* the awaited response.text() settles: the body, or a read failure
TextSettles ==
  /\ pc = "text"
  /\ \/ /\ Thrown("bodyfail")
        /\ UNCHANGED markup
     \/ \E h \in Markups :
          /\ markup' = [markup EXCEPT ![CurPage] = <<h>>]
          /\ pc' = "import"
          /\ UNCHANGED <<idx, allBooks, inflight, fetched, result, outcome>>
  /\ UNCHANGED <<env, response, pureVars, clientVars>>

\* the awaited import('fs') settles and the rest of the iteration runs:
\* writeFileSync (may throw), parseBooks (may throw), push, the stop test
PageBody ==
  /\ pc = "import"
  /\ \E r \in {"writefail", "parsethrow", "ok"} :
       IF r # "ok" THEN Thrown(r)
       ELSE LET books == parseBooks(markup[CurPage][1], CurPage)
                all   == Accumulate(allBooks, books)
            IN  /\ outcome' = [outcome EXCEPT ![CurPage] = "ok"]
                /\ IF StopsPagination(books) THEN Break(all) ELSE Continue(all)
  /\ UNCHANGED <<env, markup, response, pureVars, clientVars>>

----------------------------------------------------------------------------
(* GET                                                                     *)

\* a success body that is the bare array
JsonBare(books) ==
  [status |-> 200, books |-> Undefined, error |-> Undefined]

\* NextResponse.json({ books })
JsonOk(books) ==
  [status |-> 200, books |-> <<books>>, error |-> Undefined]

\* NextResponse.json({ error: 'Failed to fetch books', books: [] }, { status: 500 })
JsonError ==
  [status |-> 500, books |-> << <<>> >>, error |-> Str(<<"F">>)]

\* the awaited fetchFavoriteBooks() settles: the try or the catch branch
GETRespond ==
  /\ pc \in {"returned", "raised"}
  /\ response' = <<IF pc = "returned" THEN JsonOk(result[1]) ELSE JsonError>>
  /\ pc' = "responded"
  /\ UNCHANGED <<env, idx, allBooks, inflight, fetched, outcome, markup,
                 result, pureVars, clientVars>>

Next == GETCall \/ FetchSettles \/ TextSettles \/ PageBody \/ GETRespond

Spec == Init /\ [][Next]_vars

----------------------------------------------------------------------------
(* parseBooks on its own                                                   *)

ParserInit ==
  /\ env = Undefined
  /\ RunIdle
  /\ IdIdle
  /\ ClientIdle
  /\ pIn \in [html : ParserPages, page : PageSet]
  /\ pOut = <<>>

ParseCall ==
  /\ pOut = <<>>
  /\ pOut' = <<parseBooks(pIn.html, pIn.page)>>
  /\ UNCHANGED <<pIn, idIn, idOut, runVars, clientVars>>

ParserNext == ParseCall

ParserSpec == ParserInit /\ [][ParserNext]_vars

----------------------------------------------------------------------------
(* the id of a container on its own: the callback of elements.each applied *)
(* to two containers, each at a page and an index of its own               *)

IdInit ==
  /\ env = Undefined
  /\ RunIdle
  /\ ParserIdle
  /\ ClientIdle
  /\ idIn \in [1..2 -> [page : PageSet, index : 0..MaxIndex, el : IdCards]]
  /\ idOut = <<>>

IdCall ==
  /\ idOut = <<>>
  /\ idOut' = [n \in 1..2 |-> BookOf(idIn[n].el, idIn[n].page, idIn[n].index).id]
  /\ UNCHANGED <<idIn, pIn, pOut, runVars, clientVars>>

IdNext == IdCall

IdSpec == IdInit /\ [][IdNext]_vars

----------------------------------------------------------------------------
(* The client page: Home, fetchBooks and forceRefresh                      *)

\* most calls of fetchBooks / forceRefresh in one behaviour
MaxLoads == 2

\* if (prev >= 90) : the progress at which an interval stops itself
ProgressCap == 90

\* setLoadingProgress(100)
ProgressDone == 100

\* values of Math.random() * 15, a number in [0, 15)
RandomSteps == {7, 14}

\* 'Failed to fetch books'
FailedToFetch == <<"F">>

\* bodies /api/books may answer with
ApiBodies ==
  { JsonOk(<<>>), JsonOk(parseBooks(<<CardA>>, 1)), JsonError }

\* the synchronous start of fetchBooks and of forceRefresh: the state
\* resets, setInterval, and the fetch('/api/books') that is awaited
StartLoad(fn) ==
  /\ loading' = TRUE
  /\ loadingProgress' = 0
  /\ error' = Undefined
  /\ loads' = Append(loads, [fn |-> fn, pc |-> "fetch", interval |-> TRUE])

\* try body after the awaits: clearInterval, setLoadingProgress(100), and
\* the error or the books of the body; then finally: the 300 ms timeout
Loaded(l, data) ==
  /\ loads' = [loads EXCEPT ![l].pc = "finishing", ![l].interval = FALSE]
  /\ loadingProgress' = ProgressDone
  /\ IF Truthy(data.error)
     THEN /\ error' = data.error
          /\ UNCHANGED <<uiBooks, hasFetched>>
     ELSE /\ uiBooks' = (IF data.books = Undefined THEN <<>> ELSE data.books[1])
          /\ hasFetched' = TRUE
          /\ UNCHANGED error
  /\ UNCHANGED <<mounted, loading>>

\* an await of the try body throws: catch (setError, console.error; the
\* interval is not touched), then finally: the 300 ms timeout
LoadThrew(l) ==
  /\ loads' = [loads EXCEPT ![l].pc = "finishing"]
  /\ error' = Str(FailedToFetch)
  /\ UNCHANGED <<mounted, loading, loadingProgress, uiBooks, hasFetched>>

\* useEffect(() => { fetchBooks() }, []) : fetchBooks on mount
Mount ==
  /\ ~mounted
  /\ mounted' = TRUE
  /\ IF hasFetched /\ Len(uiBooks) > 0
     THEN UNCHANGED <<loading, loadingProgress, error, loads>>
     ELSE StartLoad("fetchBooks")
  /\ UNCHANGED <<uiBooks, hasFetched, runVars, pureVars>>

\* the refresh button (disabled while loading) is clicked: forceRefresh
ClickRefresh ==
  /\ mounted
  /\ ~loading
  /\ Len(loads) < MaxLoads
  /\ hasFetched' = FALSE
  /\ uiBooks' = <<>>
  /\ StartLoad("forceRefresh")
  /\ UNCHANGED <<mounted, runVars, pureVars>>

\* an active progress interval fires
ProgressTick ==
  \E l \in 1..Len(loads) :
    /\ loads[l].interval
    /\ IF loadingProgress >= ProgressCap
       THEN /\ loads' = [loads EXCEPT ![l].interval = FALSE]
            /\ UNCHANGED loadingProgress
       ELSE /\ \E step \in RandomSteps : loadingProgress' = loadingProgress + step
            /\ UNCHANGED loads
    /\ UNCHANGED <<mounted, loading, error, uiBooks, hasFetched, runVars, pureVars>>

\* the awaited fetch('/api/books') settles: a response, or a rejection
ApiFetchSettles ==
  \E l \in 1..Len(loads) :
    /\ loads[l].pc = "fetch"
    /\ \/ /\ loads' = [loads EXCEPT ![l].pc = "json"]
          /\ UNCHANGED <<mounted, loading, loadingProgress, error, uiBooks, hasFetched>>
       \/ LoadThrew(l)
    /\ UNCHANGED <<runVars, pureVars>>

\* the awaited response.json() settles: the body, or a parse failure
ApiJsonSettles ==
  \E l \in 1..Len(loads) :
    /\ loads[l].pc = "json"
    /\ \/ \E data \in ApiBodies : Loaded(l, data)
       \/ LoadThrew(l)
    /\ UNCHANGED <<runVars, pureVars>>

\* the 300 ms timeout of finally fires
FinishTimeout ==
  \E l \in 1..Len(loads) :
    /\ loads[l].pc = "finishing"
    /\ loads' = [loads EXCEPT ![l].pc = "done"]
    /\ loading' = FALSE
    /\ loadingProgress' = 0
    /\ UNCHANGED <<mounted, error, uiBooks, hasFetched, runVars, pureVars>>

ClientInit ==
  /\ env = Undefined
  /\ RunIdle
  /\ ParserIdle
  /\ IdIdle
  /\ ClientIdle

ClientNext ==
  \/ Mount
  \/ ClickRefresh
  \/ ProgressTick
  \/ ApiFetchSettles
  \/ ApiJsonSettles
  \/ FinishTimeout

ClientSpec == ClientInit /\ [][ClientNext]_vars

----------------------------------------------------------------------------
(* Properties of a run (specification Spec)                                *)

Finished == pc \in {"returned", "responded"}

\* what parseBooks returns for the body page p was answered with
ParsedOf(p) == parseBooks(markup[p][1], p)

\* C1 (early stop): once a page was fetched successfully and its parse
\* yielded zero records, that page is the last one fetched in the run and
\* the run has returned, whatever the later pages would have answered.
C1_EarlyStop ==
  \A i \in 1..Len(fetched) :
    (outcome[fetched[i]] = "ok" /\ Len(ParsedOf(fetched[i])) = 0)
      => (i = Len(fetched) /\ inflight = {} /\ Finished)

\* pages 1 and 2 answered, page 2 carried cards but none with a title, and
\* page 3 was never requested although page 1 had records
C1_Witness ==
  /\ pc = "responded"
  /\ outcome[1] = "ok" /\ Len(ParsedOf(1)) > 0
  /\ outcome[2] = "ok" /\ markup[2] # << <<>> >> /\ Len(ParsedOf(2)) = 0
  /\ fetched = <<1, 2>>
  /\ outcome[3] = "pending"
  /\ result = <<ParsedOf(1)>>

\* C2 (transport-failure skip): when the fetch of the current page ends in
\* a network fault or a non-2xx response, the accumulator is unchanged, the
\* run neither raises nor stops early, and the next configured page (if
\* any) is fetched at once; after the last page the run returns normally.
C2_TransportFailureSkip ==
  [][ (pc = "fetch" /\ outcome'[CurPage] \in {"fault", "non2xx"})
        => /\ allBooks' = allBooks
           /\ IF idx < Len(WISHLIST_PAGES)
              THEN /\ pc' = "fetch"
                   /\ fetched' = Append(fetched, WISHLIST_PAGES[idx + 1])
                   /\ inflight' = {WISHLIST_PAGES[idx + 1]}
              ELSE /\ pc' = "returned"
                   /\ result' = <<allBooks>> ]_vars

\* page 1 succeeded, page 2 answered non-2xx, page 3 was still fetched and
\* parsed, and the result holds the records of pages 1 and 3
C2_Witness ==
  /\ pc = "responded"
  /\ outcome[1] = "ok" /\ outcome[2] = "non2xx" /\ outcome[3] = "ok"
  /\ fetched = <<1, 2, 3>>
  /\ Len(ParsedOf(3)) > 0
  /\ result = <<ParsedOf(1) \o ParsedOf(3)>>

\* C3 (missing credential): with the cookie unset or empty no fetch is ever
\* issued and fetchFavoriteBooks returns the empty sequence.
C3_MissingCredential ==
  ~Truthy(env) =>
    /\ fetched = <<>>
    /\ inflight = {}
    /\ pc \in {"idle", "returned", "responded"}
    /\ result # <<>> => result[1] = <<>>

\* the cookie is set to the empty string and the service has returned
C3_Witness ==
  /\ env = Str(EmptyStr)
  /\ pc = "returned"
  /\ result = << <<>> >>
  /\ fetched = <<>>

\* C4 (never raises): whatever the pages do, fetchFavoriteBooks never
\* rejects, a run that is not over can always take a step, and GET answers
\* from its try branch: status 200, no error field, the returned records.
C4_NeverRaises ==
  /\ pc # "raised"
  /\ pc # "responded" => ENABLED Next
  /\ pc = "responded" =>
       /\ result # <<>>
       /\ response # <<>>
       /\ response[1].status = 200
       /\ response[1].error = Undefined
       /\ response[1].books = <<result[1]>>

\* a run in which the parser threw on page 1, the diagnostic write failed
\* on page 2 and the body of page 3 could not be read, answered with 200
C4_Witness ==
  /\ pc = "responded"
  /\ outcome[1] = "parsethrow"
  /\ outcome[2] = "writefail"
  /\ outcome[3] = "bodyfail"
  /\ response[1].status = 200

\* C5 (response shape): every response carries a books array, and a
\* response with an error field has an empty books array and a status
\* outside 200..299.
C5_ResponseShape ==
  response # <<>> =>
    /\ response[1].books # Undefined
    /\ DOMAIN response[1].books[1] = 1..Len(response[1].books[1])
    /\ response[1].error # Undefined =>
         /\ response[1].books[1] = <<>>
         /\ response[1].status \notin 200..299

\* a response that carries records
C5_Witness ==
  /\ response # <<>>
  /\ response[1].books # Undefined
  /\ Len(response[1].books[1]) > 1

\* C6 (sequential fetching): at most one fetch is outstanding and it is the
\* one issued last; pages are requested in strictly ascending order (so
\* each at most once); every page requested before the last one has
\* finished its iteration; there are never more requests than configured
\* pages.
C6_Sequential ==
  /\ Cardinality(inflight) <= 1
  /\ \A p \in inflight : fetched # <<>> /\ p = fetched[Len(fetched)]
  /\ \A i, j \in 1..Len(fetched) : i < j => fetched[i] < fetched[j]
  /\ \A i \in 1..(Len(fetched) - 1) : outcome[fetched[i]] # "pending"
  /\ \A p \in PageSet : outcome[p] # "pending" => \E i \in 1..Len(fetched) : fetched[i] = p
  /\ Len(fetched) <= Len(WISHLIST_PAGES)

\* the third fetch is outstanding after two finished pages
C6_Witness ==
  /\ pc = "fetch"
  /\ fetched = <<1, 2, 3>>
  /\ inflight = {3}
  /\ outcome[1] = "ok" /\ outcome[2] = "fault"

\* pages whose fetch succeeded and whose body was read, on which the parser
\* did not throw
FetchedOk(p) == markup[p] # <<>> /\ outcome[p] \in {"ok", "writefail"}

RECURSIVE ConcatParsed(_)
ConcatParsed(i) ==
  IF i = 0 THEN <<>>
  ELSE ConcatParsed(i - 1)
         \o (IF FetchedOk(fetched[i]) THEN ParsedOf(fetched[i]) ELSE <<>>)

\* C7 (aggregation): the returned sequence is the concatenation, in page
\* order, of the parser's output for every successfully fetched page.
C7_Aggregation ==
  Finished => result = <<ConcatParsed(Len(fetched))>>

----------------------------------------------------------------------------
(* Properties of the parser (specification ParserSpec)                     *)

OptionalFields == {"coverImage", "price", "availability", "url"}

\* C9 (optional fields): in every record the parser returns, coverImage,
\* price, availability and url are each absent or a non-empty string.
C9_OptionalNeverEmpty ==
  pOut # <<>> =>
    \A i \in 1..Len(pOut[1]) : \A f \in OptionalFields :
      pOut[1][i][f] = Undefined \/ pOut[1][i][f][1] # EmptyStr

\* the number of titled cards among the first k nodes of a page
TitledUpTo(html, k) ==
  Cardinality({j \in 1..k : IsCard(html[j]) /\ Truthy(BookTitle(html[j]))})

RemoveAt(s, n) == SubSeq(s, 1, n - 1) \o SubSeq(s, n + 1, Len(s))

\* the same node with a title label
WithTitle(node) == [node EXCEPT !.span = Str(<<"T">>)]

Titleless(node) == IsCard(node) /\ ~Truthy(BookTitle(node))

\* C10 (title and isolation): every record has a non-empty title, there is
\* exactly one record per titled card, and for each title-less card the
\* output equals the output of the page in which that card has a title,
\* with that card's record taken out.
C10_TitleIsolation ==
  pOut # <<>> =>
    /\ \A i \in 1..Len(pOut[1]) : pOut[1][i].title # EmptyStr
    /\ Len(pOut[1]) = TitledUpTo(pIn.html, Len(pIn.html))
    /\ \A k \in 1..Len(pIn.html) :
         Titleless(pIn.html[k]) =>
           LET html2 == [pIn.html EXCEPT ![k] = WithTitle(pIn.html[k])]
           IN  pOut[1] = RemoveAt(parseBooks(html2, pIn.page), TitledUpTo(html2, k))

\* a parsed page with a title-less card between two titled ones
C10_Witness ==
  /\ pOut # <<>>
  /\ Len(pIn.html) = 3
  /\ ~Titleless(pIn.html[1]) /\ IsCard(pIn.html[1])
  /\ Titleless(pIn.html[2])
  /\ ~Titleless(pIn.html[3]) /\ IsCard(pIn.html[3])
  /\ Len(pOut[1]) = 2

----------------------------------------------------------------------------
(* Properties of the id (specification IdSpec)                             *)

\* C8 (id uniqueness): two containers parsed at distinct (page, index)
\* pairs get different ids, whatever their links are: equal or different,
\* slugs of digits and of the id's separators, the slug "nourl", no link.
C8_IdsUnique ==
  (idOut # <<>>
     /\ <<idIn[1].page, idIn[1].index>> # <<idIn[2].page, idIn[2].index>>)
    => idOut[1] # idOut[2]

\* the same card (same url, same title, a slug of digits and separators)
\* at index 1 of one page and at index 11 of the same page
C8_Witness ==
  /\ idOut # <<>>
  /\ idIn[1].el = idIn[2].el
  /\ UrlSlug(BookUrl(idIn[1].el)) = Str(<<"1", "-", "i", "2">>)
  /\ idIn[1].page = idIn[2].page
  /\ idIn[1].index = 1
  /\ idIn[2].index = 11
  /\ idOut[1] # idOut[2]

----------------------------------------------------------------------------
(* More properties of a run (specification Spec)                           *)

\* C11 (diagnostic write): a failure of the diagnostic write of a page's
\* markup changes nothing: the step that ends with a failed write leaves
\* the accumulator, the stop decision and the next fetch as the step with a
\* successful write would.
C11_WriteNeverAffects ==
  [][ (pc = "import" /\ outcome'[CurPage] = "writefail")
        => LET books == ParsedOf(CurPage)
           IN  /\ allBooks' = allBooks \o books
               /\ IF Len(books) = 0 \/ idx = Len(WISHLIST_PAGES)
                  THEN /\ pc' = "returned"
                       /\ fetched' = fetched
                       /\ result' = <<allBooks \o books>>
                  ELSE /\ pc' = "fetch"
                       /\ fetched' = Append(fetched, WISHLIST_PAGES[idx + 1]) ]_vars

ExceptionKinds == {"bodyfail", "writefail", "parsethrow"}

RECURSIVE ConcatOk(_)
ConcatOk(i) ==
  IF i = 0 THEN <<>>
  ELSE ConcatOk(i - 1)
         \o (IF outcome[fetched[i]] = "ok" THEN ParsedOf(fetched[i]) ELSE <<>>)

\* C12 as stated: a finished run in which some page threw (body read,
\* diagnostic write, parser) returns the empty sequence, and nothing is
\* propagated to GET.
C12_ExceptionEmptiesResult ==
  /\ pc # "raised"
  /\ (Finished /\ \E p \in PageSet : outcome[p] \in ExceptionKinds)
       => result = << <<>> >>

\* C12 as amended: an exception on a page is absorbed by that iteration:
\* nothing is propagated to GET, the page contributes no record, a later
\* configured page is still fetched, and the run returns the records of
\* the pages that were parsed, in page order.
C12_ExceptionSkipsPage ==
  /\ pc # "raised"
  /\ response # <<>> => response[1].error = Undefined
  /\ \A i \in 1..Len(fetched) :
       (outcome[fetched[i]] \in ExceptionKinds
          /\ fetched[i] # WISHLIST_PAGES[Len(WISHLIST_PAGES)])
         => i < Len(fetched)
  /\ Finished => result = <<ConcatOk(Len(fetched))>>

\* page 1 gave records, the parser threw on page 2, the body of page 3
\* could not be read, and the run returned the records of page 1
C12_Witness ==
  /\ pc = "responded"
  /\ outcome[1] = "ok" /\ Len(ParsedOf(1)) > 0
  /\ outcome[2] = "parsethrow"
  /\ outcome[3] = "bodyfail"
  /\ result = <<ParsedOf(1)>>
  /\ response[1].books = <<ParsedOf(1)>>

----------------------------------------------------------------------------
(* More properties of the parser (specification ParserSpec)                *)

HasTitle(node) == IsCard(node) /\ Truthy(BookTitle(node))

\* the cards of a page that yield a record, in document order
TitledCards(html) == SelectSeq(html, HasTitle)

\* the image source value of a card: src, or data-src when src is missing
ImgSource(el) ==
  IF el.img = <<>> THEN Undefined ELSE JsOr(el.img[1].src, el.img[1].dataSrc)

Letters ==
  {"a","b","c","d","e","f","g","h","i","j","k","l","m",
   "n","o","p","q","r","s","t","u","v","w","x","y","z"}

\* an absolute URL starts with a scheme: letters, then ':'
IsAbsoluteUrl(s) ==
  \E i \in 2..Len(s) : s[i] = ":" /\ \A j \in 1..(i - 1) : s[j] \in Letters

\* C13 (cover image rewriting): for every record whose card has an image
\* source value, coverImage is that value unchanged if it is an absolute
\* URL and the base origin followed by that value otherwise.
C13_CoverRewrite ==
  pOut # <<>> =>
    \A n \in 1..Len(pOut[1]) :
      LET v == ImgSource(TitledCards(pIn.html)[n])
      IN  Truthy(v) =>
            pOut[1][n].coverImage =
              IF IsAbsoluteUrl(v[1]) THEN v ELSE Str(MNOGOKNIG_BASE_URL \o v[1])

----------------------------------------------------------------------------
(* Properties of the client page (specification ClientSpec)                *)

\* C14 (progress timers): once a load has ended (its timeout has set
\* loading to false and the progress to 0), its progress interval is no
\* longer running, so it cannot change the progress of a later load.
C14_TimersCancelled ==
  \A l \in 1..Len(loads) : loads[l].pc = "done" => ~loads[l].interval

====
